---- MODULE Spec2Model ----
(***************************************************************************)
(* HashFolder: an incrementally updated index of the regular files under   *)
(* a directory tree (path, size, mtime, SHA-256 digest) and a duplicate    *)
(* report over one or two such indexes.                                    *)
(*                                                                         *)
(* Strings are sequences of character codes, compared lexicographically    *)
(* as Rust compares String/&str.  A file's content is a sequence of        *)
(* blocks, each block standing for one full read buffer of the hashing     *)
(* loop.                                                                   *)
(***************************************************************************)
EXTENDS Integers, Sequences, FiniteSets, TLC

----------------------------------------------------------------------------
(* Bounds of the model *)

\* program runs (load, scan pass, save) in one behaviour
MaxPasses == 2
\* edits of the file tree made between two runs
MaxEdits == 1
\* recoverable failures (unreadable directory, entry or file) in one pass
MaxFaults == 1
\* entries handed to the duplicate report, both indexes together
MaxRecords == 4
\* file sizes of the entries handed to the duplicate report: 0..MaxSize
MaxSize == 1
\* the longest snapshot a file on disk holds
MaxSnapshot == 3
\* the longest size literal, in characters
MaxLiteral == 4

----------------------------------------------------------------------------
(* The directory tree the scanner walks *)

\* the canonical starting directory; every path below extends it
RootDir == <<>>
\* path separator and one-character names, as character codes
FileA == <<1, 2>>
DirB == <<1, 3>>
FileX == <<1, 3, 1, 2>>
DirD == <<1, 4>>
FileC == <<1, 4, 1, 2>>

\* const HASH_DATA_FILENAME
HASH_DATA_FILENAME == <<5>>

\* Path::join: the separator is the character 1
PathJoin(path, name) == path \o <<1>> \o name

\* starting_dir.join(HASH_DATA_FILENAME): the snapshot lies in the scanned root
SnapshotPath == PathJoin(RootDir, HASH_DATA_FILENAME)

\* the files of the user, and the directories
Files == {FileA, FileX, FileC}
Dirs == {RootDir, DirB, DirD}

\* the directory an entry lives in
Parent(p) == SubSeq(p, 1, Len(p) - 2)

\* the blocks a file can consist of: the empty file and two contents of
\* equal length
Contents == {<<>>, <<1>>, <<2>>}
\* the modification times (seconds since the epoch) a file can carry
Mtimes == {1, 2}

NoFile == [exists |-> FALSE, content |-> <<>>, mtime |-> 0]
FileStates == {NoFile} \cup [exists : {TRUE}, content : Contents, mtime : Mtimes]

----------------------------------------------------------------------------
(* Strings and their order *)

RECURSIVE StrLess(_, _)
\* a < b for strings (lexicographic, a proper prefix is smaller)
StrLess(a, b) ==
  IF b = <<>> THEN FALSE
  ELSE IF a = <<>> THEN TRUE
  ELSE IF Head(a) # Head(b) THEN Head(a) < Head(b)
  ELSE StrLess(Tail(a), Tail(b))

\* Ordering of a against b: "Less", "Equal" or "Greater"
StrCmp(a, b) ==
  IF a = b THEN "Equal" ELSE IF StrLess(a, b) THEN "Less" ELSE "Greater"

----------------------------------------------------------------------------
(* Records of the index *)

\* read buffer of the hashing loop, in bytes
BufferLen == 8192

\* struct FileEntry
FileEntry(file_name, file_size, hash, modified) ==
  [file_name |-> file_name, file_size |-> file_size, hash |-> hash,
   modified |-> modified]

\* String::default(), what mem::take leaves behind
EmptyStr == <<>>

\* PathBuf::is_file on a stored or discovered name
IsFile(tree, name) == name \in DOMAIN tree /\ tree[name].exists

\* Metadata::size of an open file
MetadataSize(st) == Len(st.content) * BufferLen

\* Metadata::modified, as whole seconds since the epoch
MetadataModified(st) == st.mtime

----------------------------------------------------------------------------
(* Digest engine: SHA-256 over the blocks read, hex encoded *)

\* Sha256::default()
Sha256Default == <<>>

\* Digest::update: the accumulator absorbs one buffer
Sha256Update(h, block) == Append(h, block)

\* Digest::finalize: collision free on the inputs of the model; the message
\* length is part of the padded input, so no digest is empty
Sha256Finalize(h) == <<Len(h)>> \o h

RECURSIVE HexEncode(_)
\* hex::encode: two hexadecimal digits per byte
HexEncode(bytes) ==
  IF bytes = <<>> THEN <<>>
  ELSE <<Head(bytes) \div 16, Head(bytes) % 16>> \o HexEncode(Tail(bytes))

RECURSIVE FeedAll(_, _)
\* the accumulator after a whole stream of blocks
FeedAll(h, blocks) ==
  IF blocks = <<>> THEN h
  ELSE FeedAll(Sha256Update(h, Head(blocks)), Tail(blocks))

\* the digest of a whole stream
DigestOfStream(blocks) ==
  HexEncode(Sha256Finalize(FeedAll(Sha256Default, blocks)))

----------------------------------------------------------------------------
(* Lookup and mutation of the sorted index *)

RECURSIVE BinarySearchLoop(_, _, _, _)
\* the halving loop of slice::binary_search_by; base is 0-based
BinarySearchLoop(v, key, base, size) ==
  IF size <= 1 THEN base
  ELSE LET half == size \div 2
           mid == base + half
           cmp == StrCmp(v[mid + 1].file_name, key)
       IN BinarySearchLoop(v, key, IF cmp = "Greater" THEN base ELSE mid,
                           size - half)

\* hash_data.binary_search_by_key(&&file_name, |entry| &entry.file_name):
\* Ok(pos) as [found |-> TRUE], Err(pos) as [found |-> FALSE], pos 0-based
BinarySearchByKey(v, key) ==
  IF Len(v) = 0 THEN [found |-> FALSE, pos |-> 0]
  ELSE LET base == BinarySearchLoop(v, key, 0, Len(v))
           cmp == StrCmp(v[base + 1].file_name, key)
       IN IF cmp = "Equal" THEN [found |-> TRUE, pos |-> base]
          ELSE [found |-> FALSE,
                pos |-> base + (IF cmp = "Less" THEN 1 ELSE 0)]

\* the skip test without the comparison of the modification time
IsUpToDateSizeOnly(v, entry_position, file_size, modified) ==
  /\ entry_position.found
  /\ entry_position.pos < Len(v)
  /\ v[entry_position.pos + 1].file_size = file_size

\* the skip test with the modification time compared to the wrong value
IsUpToDateMixedUp(v, entry_position, file_size, modified) ==
  /\ entry_position.found
  /\ entry_position.pos < Len(v)
  /\ v[entry_position.pos + 1].file_size = file_size
  /\ v[entry_position.pos + 1].modified = file_size

\* the test of the if-let chain that skips an unchanged file
IsUpToDate(v, entry_position, file_size, modified) ==
  /\ entry_position.found
  /\ entry_position.pos < Len(v)
  /\ v[entry_position.pos + 1].file_size = file_size
  /\ v[entry_position.pos + 1].modified = modified

\* Vec::insert(pos, e), pos 0-based
VecInsert(v, pos, e) ==
  SubSeq(v, 1, pos) \o <<e>> \o SubSeq(v, pos + 1, Len(v))

\* the store with a new entry pushed at the end instead of inserted
StoreHashAtEnd(v, entry_position, file_name, file_size, modified, hash) ==
  IF entry_position.found
  THEN IF entry_position.pos < Len(v)
       THEN [v EXCEPT ![entry_position.pos + 1].hash = hash]
       ELSE v
  ELSE Append(v, FileEntry(file_name, file_size, hash, modified))

\* the match on entry_position after hash_file returned: Ok updates the
\* entry found, Err inserts a new entry at the position of the failed search
StoreHash(v, entry_position, file_name, file_size, modified, hash) ==
  IF entry_position.found
  THEN IF entry_position.pos < Len(v)
       THEN [v EXCEPT ![entry_position.pos + 1].hash = hash]
       ELSE v
  ELSE VecInsert(v, entry_position.pos,
                 FileEntry(file_name, file_size, hash, modified))

\* is_sorted_by_key(|entry| &entry.file_name): non-decreasing
IsSortedByKey(v) ==
  \A i \in 1..(Len(v) - 1) : ~StrLess(v[i + 1].file_name, v[i].file_name)

RECURSIVE SortedInsert(_, _)
\* e placed after every entry that does not compare greater (stable)
SortedInsert(v, e) ==
  IF v = <<>> THEN <<e>>
  ELSE IF StrLess(e.file_name, Head(v).file_name) THEN <<e>> \o v
  ELSE <<Head(v)>> \o SortedInsert(Tail(v), e)

RECURSIVE SortByFileName(_)
\* sort_by(|a, b| a.file_name.cmp(&b.file_name)), a stable sort
SortByFileName(v) ==
  IF v = <<>> THEN <<>>
  ELSE SortedInsert(SortByFileName(SubSeq(v, 1, Len(v) - 1)), v[Len(v)])

\* the tail of load_current_hash_data: sort unless already sorted
RestoreOrder(v) == IF IsSortedByKey(v) THEN v ELSE SortByFileName(v)

----------------------------------------------------------------------------
(* The state of a run of the program *)

VARIABLES
  fs,                        \* the files of the tree: name -> state
  snapshot,                  \* the persisted hash.json of the root directory
  pc,                        \* where the run is
  skip,                      \* args.skip
  data_file,                 \* the index in memory
  purge_i,                   \* scan_for_deleted: next entry to check (1-based)
  result,                    \* scan_for_deleted: the entries kept so far
  pending_directories_list,  \* scan_for_new_and_updated: the stack
  current_path,              \* process_folder: the directory being read
  dir_reader,                \* process_folder: entries not yet enumerated
  file_list,                 \* process_folder: regular files found
  subdirectory_list,         \* process_folder: directories found
  file_index,                \* process_folder: next file of file_list
  cur,                       \* the file being hashed and its metadata
  hasher,                    \* hash_file: the accumulator
  reader_pos,                \* hash_file: blocks read so far
  abort_pending,             \* a 'q' key event waits in the terminal queue
  scan_result,               \* how the pass ended
  ret,                       \* what scan_folder_tree returned
  saved,                     \* save_hash_data was called in this run
  diag,                      \* paths a diagnostic line was printed for
  hashed,                    \* files hash_file was called for in this pass
  committed,                 \* entries stored by this pass
  pushes,                    \* directory -> times pushed in this pass
  pops,                      \* directory -> times popped in this pass
  settled,                   \* the last pass ended normally with no diagnostic
                             \* and was saved, and no file was edited since
  passes,                    \* runs started
  edits,                     \* edits of the tree made
  rpt_pc,                    \* duplicate_report: where it is
  rpt_data_file,             \* duplicate_report: argument data_file
  rpt_other,                 \* duplicate_report: argument other_data_file
  rpt_minimum,               \* duplicate_report: argument minimum
  hash_index,                \* duplicate_report: digest -> its entries
  hash_list,                 \* duplicate_report: the groups to print
  rpt_out,                   \* duplicate_report: the groups printed
  st_pc,                     \* index store: which call comes next
  st_disk,                   \* index store: path -> what is at the path
  st_create,                 \* load_current_hash_data: argument create
  st_index,                  \* save_hash_data: argument data_file
  st_loaded,                 \* what load_current_hash_data returned
  st_saved,                  \* what save_hash_data returned
  st_fault,                  \* opening or writing a file failed
  ps_pc,                     \* parse_ref: where it is
  ps_literal,                \* parse_ref: argument value
  ps_result,                 \* what parse_ref returned
  ps_bytes                   \* the byte count the ByteSize resolved to

scan_vars == <<fs, snapshot, pc, skip, data_file, purge_i, result,
               pending_directories_list, current_path, dir_reader, file_list,
               subdirectory_list, file_index, cur, hasher, reader_pos,
               abort_pending, scan_result, ret, saved, diag, hashed,
               committed, pushes, pops, settled, passes, edits>>

report_vars == <<rpt_pc, rpt_data_file, rpt_other, rpt_minimum, hash_index,
                 hash_list, rpt_out>>

store_vars == <<st_pc, st_disk, st_create, st_index, st_loaded, st_saved,
                st_fault>>

parse_vars == <<ps_pc, ps_literal, ps_result, ps_bytes>>

side_vars == <<store_vars, parse_vars>>

vars == <<scan_vars, report_vars, side_vars>>

walk_locals == <<pending_directories_list, current_path, dir_reader,
                 file_list, subdirectory_list, file_index>>
hash_locals == <<cur, hasher, reader_pos>>
purge_locals == <<purge_i, result>>
outcome == <<pc, scan_result, ret>>
ghosts == <<diag, hashed, committed>>
visits == <<pushes, pops>>
world == <<fs, snapshot, settled, passes, edits, skip, saved, report_vars,
           side_vars>>

\* Result<(), AppError>: Ok(()), Err(AppError::Abort) with its message,
\* Err(AppError::Caught) with the caller location app_err() recorded
NoResult == [kind |-> "none", info |-> ""]
Ok == [kind |-> "Ok", info |-> ""]
Abort == [kind |-> "Abort", info |-> "Abort key pressed"]
Caught(caller) == [kind |-> "Caught", info |-> caller]

NoCur == [active |-> FALSE, file_name |-> <<>>, file_size |-> 0,
          modified |-> 0, entry_position |-> [found |-> FALSE, pos |-> 0]]
NoRet == [returned |-> FALSE, some |-> FALSE, data |-> <<>>, err |-> NoResult]
NoSnapshot == [exists |-> FALSE, data |-> <<>>, mtime |-> 0]

\* the poll as it would be if the key were never looked at
CheckExitKeyPressedNever(pending) == {Ok, Caught("utils.rs:9")}

\* check_exit_key_pressed: Err(Abort) when a 'q' key event is pending, Ok when
\* the queue is empty, Err(Caught) when polling the terminal fails
CheckExitKeyPressed(pending) ==
  {IF pending THEN Abort ELSE Ok, Caught("utils.rs:9")}

\* the errors of the metadata reads of process_folder: file.metadata(),
\* metadata.modified() and duration_since(UNIX_EPOCH), each with ?
MetadataErrors ==
  {Caught("scan_folders.rs:138"), Caught("scan_folders.rs:142"),
   Caught("scan_folders.rs:144")}

\* hash_file, one turn of its loop: the error of the poll, or after a poll
\* that returned Ok the outcome of reader.read: Ok or its error
ReadAfterPoll(polled) ==
  (polled \ {Ok}) \cup
    (IF Ok \in polled THEN {Ok, Caught("scan_folders.rs:193")} ELSE {})

\* the entries read_dir yields for a directory: its subdirectories and the
\* files that exist in it
RECURSIVE ToJsonEntries(_)
\* the entries of the text: each field, the strings with their lengths
ToJsonEntries(data) ==
  IF data = <<>> THEN <<>>
  ELSE <<Len(Head(data).file_name)>> \o Head(data).file_name
         \o <<Head(data).file_size, Len(Head(data).hash)>> \o Head(data).hash
         \o <<Head(data).modified>> \o ToJsonEntries(Tail(data))

\* serde_json::to_writer(writer, &data_file): the text of the index, one
\* element per buffer the hashing loop reads; different indexes give
\* different texts, and the text of the empty index is not empty
ToJson(data) == <<0>> \o ToJsonEntries(data)

\* the snapshot as a file of the tree: the text the last save wrote, with
\* the time of that save
SnapshotFile(snap) ==
  IF snap.exists
  THEN [exists |-> TRUE, content |-> ToJson(snap.data), mtime |-> snap.mtime]
  ELSE NoFile

\* the regular files under the starting directory: those of the user and the
\* snapshot, which save_hash_data puts into the starting directory
Tree ==
  [p \in Files \cup {SnapshotPath} |->
     IF p = SnapshotPath THEN SnapshotFile(snapshot) ELSE fs[p]]

\* the entries read_dir yields for a directory
Entries(tree, dir) ==
  {d \in Dirs : d # RootDir /\ Parent(d) = dir}
    \cup {f \in DOMAIN tree : Parent(f) = dir /\ tree[f].exists}

\* the orders in which read_dir can yield a set of entries
Orders(S) ==
  {s \in [1..Cardinality(S) -> S] : \A i, j \in DOMAIN s : s[i] = s[j] => i = j}

\* is_dir / is_file of an entry's path
Classify(tree, path) ==
  IF path \in Dirs THEN "dir" ELSE IF IsFile(tree, path) THEN "file" ELSE "other"

\* load_current_hash_data(&starting_dir, true) of main: the empty index when
\* no snapshot exists, else the snapshot's records in restored order
LoadOrCreate(snap) == IF snap.exists THEN RestoreOrder(snap.data) ELSE <<>>

\* scan_folder_tree when scan_for_deleted fails: (None, Some(err))
PruneFailedReturn(kept, err) ==
  [returned |-> TRUE, some |-> FALSE, data |-> <<>>, err |-> err]

\* the return of the walk as it would be if an error dropped the index
WalkReturnNoneOnError(index, res) ==
  IF res = Ok
  THEN [returned |-> TRUE, some |-> TRUE, data |-> index, err |-> res]
  ELSE [returned |-> TRUE, some |-> FALSE, data |-> <<>>, err |-> res]

\* scan_folder_tree after the walk: (Some(data_file), scan_result.err())
WalkReturn(index, res) ==
  [returned |-> TRUE, some |-> TRUE, data |-> index, err |-> res]

\* the walk as it would be if subdirectories were never queued
PushSubdirectoriesNone(pending, subdirs) == pending

\* the walk as it would be if every directory found were queued twice
PushSubdirectoriesTwice(pending, subdirs) == pending \o subdirs \o subdirs

\* the walk as it would be if the directories found replaced the pending ones
PushSubdirectoriesOnly(pending, subdirs) == subdirs

\* pending_directories_list.append(&mut subdirectory_list)
PushSubdirectories(pending, subdirs) == pending \o subdirs

\* the prune as it would be if every entry were kept
KeepIfFileAlways(tree, kept, entry) == Append(kept, entry)

\* the body of the loop of scan_for_deleted after the poll
KeepIfFile(tree, kept, entry) ==
  IF IsFile(tree, entry.file_name) THEN Append(kept, entry) ELSE kept

\* the tree at the first run: two files of equal content and an empty file;
\* no snapshot has been written yet
InitialTree ==
  [f \in Files |->
     [exists |-> TRUE, content |-> IF f = FileX THEN <<>> ELSE <<1>>,
      mtime |-> 1]]

\* no report is being made
ReportIdle ==
  /\ rpt_pc = "off"
  /\ rpt_data_file = <<>>
  /\ rpt_other = [some |-> FALSE, data |-> <<>>]
  /\ rpt_minimum = [some |-> FALSE, unit |-> "Byte", value |-> 0]
  /\ hash_index = <<>>
  /\ hash_list = <<>>
  /\ rpt_out = <<>>

\* the index store is not being called
StoreIdle ==
  /\ st_pc = "off"
  /\ st_disk = <<>>
  /\ st_create = FALSE
  /\ st_index = <<>>
  /\ st_loaded = [res |-> [kind |-> "none", info |-> ""], data |-> <<>>]
  /\ st_saved = [kind |-> "none", info |-> ""]
  /\ st_fault = FALSE

\* no size literal is being parsed
ParseIdle ==
  /\ ps_pc = "off"
  /\ ps_literal = <<>>
  /\ ps_result = [kind |-> "none", unit |-> "none", value |-> <<>>]
  /\ ps_bytes = [kind |-> "none", value |-> <<>>]

\* the program has not started
ScanIdle ==
  /\ fs = InitialTree
  /\ snapshot = NoSnapshot
  /\ pc = "start"
  /\ skip = FALSE
  /\ data_file = <<>>
  /\ purge_i = 1
  /\ result = <<>>
  /\ pending_directories_list = <<>>
  /\ current_path = RootDir
  /\ dir_reader = <<>>
  /\ file_list = <<>>
  /\ subdirectory_list = <<>>
  /\ file_index = 1
  /\ cur = NoCur
  /\ hasher = Sha256Default
  /\ reader_pos = 0
  /\ abort_pending = FALSE
  /\ scan_result = NoResult
  /\ ret = NoRet
  /\ saved = FALSE
  /\ diag = {}
  /\ hashed = {}
  /\ committed = {}
  /\ pushes = [d \in Dirs |-> 0]
  /\ pops = [d \in Dirs |-> 0]
  /\ settled = FALSE
  /\ passes = 0
  /\ edits = 0

Init == ScanIdle /\ ReportIdle /\ StoreIdle /\ ParseIdle

----------------------------------------------------------------------------
(* The run: load, prune, walk, save *)

\* the pass stops: scan_for_new_and_updated returned res and its locals are
\* dropped, scan_folder_tree returns, main goes on to save
EndWalk(res) ==
  /\ scan_result' = res
  /\ ret' = WalkReturn(data_file, res)
  /\ pc' = "save"
  /\ pending_directories_list' = <<>>
  /\ current_path' = RootDir
  /\ dir_reader' = <<>>
  /\ file_list' = <<>>
  /\ subdirectory_list' = <<>>
  /\ file_index' = 1
  /\ hasher' = Sha256Default
  /\ reader_pos' = 0

\* main: load the index of the starting directory, then scan unless --skip
MainLoad ==
  /\ pc = "start"
  /\ data_file' = LoadOrCreate(snapshot)
  /\ \E s \in BOOLEAN :
       /\ skip' = s
       /\ pc' = IF s THEN "exit" ELSE "purge"
  /\ passes' = passes + 1
  /\ UNCHANGED <<fs, snapshot, visits, settled, edits, abort_pending, saved,
                 scan_result, ret,
                 purge_locals, walk_locals, hash_locals, ghosts, report_vars,
                 side_vars>>

\* the operator presses Q while a pass runs
KeyPress ==
  /\ pc \in {"purge", "walk", "enum", "files", "hash"}
  /\ ~abort_pending
  /\ abort_pending' = TRUE
  /\ UNCHANGED <<world, visits, outcome, data_file, purge_locals, walk_locals,
                 hash_locals, ghosts>>

\* scan_for_deleted, one iteration: poll, then keep the entry if its file
\* still exists; an error ends the pass with nothing returned and nothing saved
ScanForDeletedStep ==
  /\ pc = "purge"
  /\ purge_i <= Len(data_file)
  /\ \E o \in CheckExitKeyPressed(abort_pending) :
       \/ /\ o = Ok
          /\ result' = KeepIfFile(Tree, result, data_file[purge_i])
          /\ purge_i' = purge_i + 1
          /\ UNCHANGED <<outcome, abort_pending>>
       \/ \* main prints the error and returns; the terminal queue is left
          \* to the shell
          /\ o # Ok
          /\ scan_result' = o
          /\ ret' = PruneFailedReturn(result, o)
          /\ pc' = "exit"
          /\ abort_pending' = FALSE
          /\ UNCHANGED purge_locals
  /\ UNCHANGED <<world, visits, data_file, walk_locals, hash_locals, ghosts>>

\* scan_for_deleted returns Ok(result); scan_for_new_and_updated enables raw
\* mode and pushes the starting directory
ScanForDeletedDone ==
  /\ pc = "purge"
  /\ purge_i > Len(data_file)
  /\ data_file' = result
  /\ result' = <<>>
  /\ purge_i' = 1
  /\ \/ /\ pending_directories_list' = <<RootDir>>
        /\ pushes' = [pushes EXCEPT ![RootDir] = @ + 1]
        /\ pc' = "walk"
        /\ UNCHANGED <<scan_result, ret>>
     \/ /\ scan_result' = Caught("scan_folders.rs:55")
        /\ ret' = WalkReturn(result, Caught("scan_folders.rs:55"))
        /\ pc' = "save"
        /\ UNCHANGED <<pending_directories_list, pushes>>
  /\ UNCHANGED <<world, pops, abort_pending, current_path, dir_reader,
                 file_list,
                 subdirectory_list, file_index, hash_locals, ghosts>>

\* the loop of scan_for_new_and_updated: pop a directory and open it
\* (the head of process_folder), or end the pass when the stack is empty
PopDirectory ==
  /\ pc = "walk"
  /\ \/ /\ pending_directories_list = <<>>
        /\ EndWalk(Ok)
        /\ UNCHANGED <<diag, pops>>
     \/ /\ pending_directories_list # <<>>
        /\ \E order \in Orders(Entries(Tree, pending_directories_list[
                                             Len(pending_directories_list)])) :
             /\ current_path' =
                  pending_directories_list[Len(pending_directories_list)]
             /\ pending_directories_list' =
                  SubSeq(pending_directories_list, 1,
                         Len(pending_directories_list) - 1)
             /\ dir_reader' = order
             /\ file_list' = <<>>
             /\ subdirectory_list' = <<>>
             /\ file_index' = 1
             /\ pc' = "enum"
             /\ pops' = [pops EXCEPT ![pending_directories_list[
                                         Len(pending_directories_list)]] = @ + 1]
             /\ UNCHANGED <<scan_result, ret, diag, hasher, reader_pos>>
     \/ \* read_dir fails: a diagnostic line, the directory has no children
        /\ pending_directories_list # <<>>
        /\ Cardinality(diag) < MaxFaults
        /\ diag' = diag \cup
             {pending_directories_list[Len(pending_directories_list)]}
        /\ pops' = [pops EXCEPT ![pending_directories_list[
                                    Len(pending_directories_list)]] = @ + 1]
        /\ \/ /\ pending_directories_list' =
                   PushSubdirectories(
                     SubSeq(pending_directories_list, 1,
                            Len(pending_directories_list) - 1), <<>>)
              /\ UNCHANGED <<outcome, current_path, dir_reader, file_list,
                             subdirectory_list, file_index, hasher,
                             reader_pos>>
           \/ EndWalk(Caught("scan_folders.rs:86"))
  /\ UNCHANGED <<world, pushes, abort_pending, data_file, purge_locals, cur,
                 hashed, committed>>

\* process_folder, first loop: poll, then classify one directory entry
EnumEntry ==
  /\ pc = "enum"
  /\ dir_reader # <<>>
  /\ \E o \in CheckExitKeyPressed(abort_pending) :
       \/ /\ o # Ok
          /\ EndWalk(o)
          /\ UNCHANGED diag
       \/ \* Ok(entry)
          /\ o = Ok
          /\ dir_reader' = Tail(dir_reader)
          /\ subdirectory_list' =
               IF Classify(Tree, Head(dir_reader)) = "dir"
               THEN Append(subdirectory_list, Head(dir_reader))
               ELSE subdirectory_list
          /\ file_list' =
               IF Classify(Tree, Head(dir_reader)) = "file"
               THEN Append(file_list, Head(dir_reader))
               ELSE file_list
          /\ UNCHANGED <<outcome, diag, pending_directories_list,
                         current_path, file_index, hasher, reader_pos>>
       \/ \* Err(err): a diagnostic line, the entry is skipped
          /\ o = Ok
          /\ Cardinality(diag) < MaxFaults
          /\ diag' = diag \cup {Head(dir_reader)}
          /\ \/ /\ dir_reader' = Tail(dir_reader)
                /\ UNCHANGED <<outcome, pending_directories_list,
                               current_path, file_list, subdirectory_list,
                               file_index, hasher, reader_pos>>
             \/ EndWalk(Caught("scan_folders.rs:97"))
  /\ UNCHANGED <<world, visits, abort_pending, data_file, purge_locals, cur,
                 hashed, committed>>

\* process_folder: the directory is enumerated, the file loop starts
BeginFiles ==
  /\ pc = "enum"
  /\ dir_reader = <<>>
  /\ pc' = "files"
  /\ file_index' = 1
  /\ UNCHANGED <<world, visits, abort_pending, data_file, purge_locals,
                 pending_directories_list,
                 current_path, dir_reader, file_list, subdirectory_list,
                 hash_locals, scan_result, ret, ghosts>>

\* process_folder, second loop, up to the call of hash_file: progress line,
\* open, metadata, lookup, skip if unchanged
ProcessFile ==
  /\ pc = "files"
  /\ file_index <= Len(file_list)
  /\ LET file_name == file_list[file_index]
         file_size == MetadataSize(Tree[file_name])
         modified == MetadataModified(Tree[file_name])
         entry_position == BinarySearchByKey(data_file, file_name)
     IN \/ \* writing the progress line fails
           /\ EndWalk(Caught("scan_folders.rs:121"))
           /\ UNCHANGED <<cur, diag, hashed>>
        \/ \* the file cannot be opened: a diagnostic line, next file
           /\ Cardinality(diag) < MaxFaults
           /\ diag' = diag \cup {file_name}
           /\ \/ /\ file_index' = file_index + 1
                 /\ UNCHANGED <<outcome, pending_directories_list,
                                current_path, dir_reader, file_list,
                                subdirectory_list, hash_locals>>
              \/ /\ EndWalk(Caught("scan_folders.rs:133"))
                 /\ UNCHANGED cur
           /\ UNCHANGED hashed
        \/ \* reading the metadata of the open file fails
           /\ \E err \in MetadataErrors : EndWalk(err)
           /\ UNCHANGED <<cur, diag, hashed>>
        \/ \* unchanged since it was hashed: next file
           /\ IsUpToDate(data_file, entry_position, file_size, modified)
           /\ file_index' = file_index + 1
           /\ UNCHANGED <<outcome, pending_directories_list, current_path,
                          dir_reader, file_list, subdirectory_list,
                          hash_locals, diag, hashed>>
        \/ \* new or changed: hash_file(file)
           /\ ~IsUpToDate(data_file, entry_position, file_size, modified)
           /\ cur' = [active |-> TRUE, file_name |-> file_name,
                      file_size |-> file_size, modified |-> modified,
                      entry_position |-> entry_position]
           /\ hasher' = Sha256Default
           /\ reader_pos' = 0
           /\ hashed' = hashed \cup {file_name}
           /\ pc' = "hash"
           /\ UNCHANGED <<scan_result, ret, walk_locals, diag>>
  /\ UNCHANGED <<world, visits, abort_pending, data_file, purge_locals,
                 committed>>

\* process_folder returns its subdirectories, which go onto the stack
FolderDone ==
  /\ pc = "files"
  /\ file_index > Len(file_list)
  /\ pending_directories_list' =
       PushSubdirectories(pending_directories_list, subdirectory_list)
  /\ pushes' =
       [d \in Dirs |->
          pushes[d] + Cardinality({i \in DOMAIN pending_directories_list' :
                                    pending_directories_list'[i] = d})
                    - Cardinality({i \in DOMAIN pending_directories_list :
                                    pending_directories_list[i] = d})]
  /\ current_path' = RootDir
  /\ dir_reader' = <<>>
  /\ file_list' = <<>>
  /\ subdirectory_list' = <<>>
  /\ file_index' = 1
  /\ pc' = "walk"
  /\ UNCHANGED <<world, pops, abort_pending, data_file, purge_locals,
                 hash_locals, scan_result, ret, ghosts>>

\* hash_file, one iteration: poll, read a buffer, feed it; at end of file
\* the digest is returned and process_folder stores it in the index
HashChunk ==
  /\ pc = "hash"
  /\ \E o \in ReadAfterPoll(CheckExitKeyPressed(abort_pending)) :
       \/ \* the poll or the read fails
          /\ o # Ok
          /\ EndWalk(o)
          /\ UNCHANGED <<data_file, cur, committed>>
       \/ \* a buffer was read: feed it
          /\ o = Ok
          /\ reader_pos < Len(Tree[cur.file_name].content)
          /\ hasher' =
               Sha256Update(hasher, Tree[cur.file_name].content[reader_pos + 1])
          /\ reader_pos' = reader_pos + 1
          /\ UNCHANGED <<outcome, data_file, walk_locals, cur, committed>>
       \/ \* end of file: finalize, store
          /\ o = Ok
          /\ reader_pos >= Len(Tree[cur.file_name].content)
          /\ LET stored ==
                   StoreHash(data_file, cur.entry_position, cur.file_name,
                             cur.file_size, cur.modified,
                             HexEncode(Sha256Finalize(hasher)))
             IN /\ data_file' = stored
                /\ committed' = committed \cup
                     {stored[i] : i \in {j \in DOMAIN stored :
                                    stored[j].file_name = cur.file_name}}
          /\ cur' = NoCur
          /\ hasher' = Sha256Default
          /\ reader_pos' = 0
          /\ file_index' = file_index + 1
          /\ pc' = "files"
          /\ UNCHANGED <<scan_result, ret, pending_directories_list,
                         current_path, dir_reader, file_list,
                         subdirectory_list>>
  /\ UNCHANGED <<world, visits, abort_pending, purge_locals, diag, hashed>>

\* main: save_hash_data(&starting_dir, &data_file); an error is only printed.
\* The process ends here, and a key still pending ends with it.
SaveHashData ==
  /\ pc = "save"
  /\ saved' = TRUE
  /\ \/ /\ snapshot' = [exists |-> TRUE, data |-> data_file, mtime |-> passes]
        /\ settled' = (scan_result = Ok /\ diag = {})
     \/ /\ UNCHANGED snapshot
        /\ settled' = FALSE
  /\ pc' = "exit"
  /\ abort_pending' = FALSE
  /\ UNCHANGED <<fs, visits, passes, edits, skip, scan_result, ret, data_file,
                 purge_locals, walk_locals, hash_locals, ghosts, report_vars,
                 side_vars>>

\* the program is started again
Rerun ==
  /\ pc = "exit"
  /\ passes < MaxPasses
  /\ pc' = "start"
  /\ skip' = FALSE
  /\ data_file' = <<>>
  /\ purge_i' = 1
  /\ result' = <<>>
  /\ pending_directories_list' = <<>>
  /\ current_path' = RootDir
  /\ dir_reader' = <<>>
  /\ file_list' = <<>>
  /\ subdirectory_list' = <<>>
  /\ file_index' = 1
  /\ cur' = NoCur
  /\ hasher' = Sha256Default
  /\ reader_pos' = 0
  /\ abort_pending' = FALSE
  /\ scan_result' = NoResult
  /\ ret' = NoRet
  /\ saved' = FALSE
  /\ diag' = {}
  /\ hashed' = {}
  /\ committed' = {}
  /\ pushes' = [d \in Dirs |-> 0]
  /\ pops' = [d \in Dirs |-> 0]
  /\ UNCHANGED <<fs, snapshot, settled, passes, edits, report_vars, side_vars>>

\* between two runs a file of the tree is written, touched or deleted
FsEdit ==
  /\ pc = "start"
  /\ edits < MaxEdits
  /\ \E f \in Files, st \in FileStates :
       /\ st # fs[f]
       /\ fs' = [fs EXCEPT ![f] = st]
  /\ edits' = edits + 1
  /\ settled' = FALSE
  /\ UNCHANGED <<snapshot, visits, passes, skip, abort_pending, saved, outcome,
                 data_file, purge_locals, walk_locals, hash_locals, ghosts,
                 report_vars, side_vars>>

Next ==
  \/ MainLoad
  \/ KeyPress
  \/ ScanForDeletedStep
  \/ ScanForDeletedDone
  \/ PopDirectory
  \/ EnumEntry
  \/ BeginFiles
  \/ ProcessFile
  \/ FolderDone
  \/ HashChunk
  \/ SaveHashData
  \/ Rerun
  \/ FsEdit

Spec == Init /\ [][Next]_vars

\* a pass that was started runs on: the scanner is one sequential thread
\* that waits for nothing but the results of its own system calls
Pass ==
  \/ ScanForDeletedStep
  \/ ScanForDeletedDone
  \/ PopDirectory
  \/ EnumEntry
  \/ BeginFiles
  \/ ProcessFile
  \/ FolderDone
  \/ HashChunk

SpecLive == Init /\ [][Next]_vars /\ WF_vars(Pass)

----------------------------------------------------------------------------
(* The duplicate report *)

\* enum ByteSize, a variant and its payload
ByteSize(unit, value) == [some |-> TRUE, unit |-> unit, value |-> value]
NoMinimum == [some |-> FALSE, unit |-> "Byte", value |-> 0]

\* the factors of impl Into<u64> for ByteSize
Multiplier(unit) ==
  CASE unit = "Byte" -> 1
    [] unit = "KByte" -> 1000
    [] unit = "KiByte" -> 1024
    [] unit = "MByte" -> 1000 * 1000
    [] unit = "MiByte" -> 1024 * 1024
    [] unit = "GByte" -> 1000 * 1000 * 1000
    [] unit = "GiByte" -> 1024 * 1024 * 1024
    [] unit = "TByte" -> 1000 * 1000 * 1000 * 1000
    [] unit = "TiByte" -> 1024 * 1024 * 1024 * 1024

\* impl Into<u64> for ByteSize, for the sizes of the report's inputs, whose
\* products are far from 64 bits
ByteSizeInto(b) == b.value * Multiplier(b.unit)

\* minimum.unwrap_or(ByteSize::Byte(1)).into()
MinimumBytes(minimum) ==
  ByteSizeInto(IF minimum.some THEN minimum ELSE ByteSize("Byte", 1))

\* the size test as it would be if a size equal to the minimum were dropped
IsBelowMinimumOrEqual(size, minimum) == size <= MinimumBytes(minimum)

\* if size < minimum.unwrap_or(ByteSize::Byte(1)).into() { continue; }
IsBelowMinimum(size, minimum) == size < MinimumBytes(minimum)

\* one iteration of the grouping loops: take the hash out of the entry and
\* push the entry onto the group of that hash
PushToGroup(index, file) ==
  IF file.hash \in DOMAIN index
  THEN [index EXCEPT ![file.hash] =
          Append(@, [file EXCEPT !.hash = EmptyStr])]
  ELSE index @@ (file.hash :> <<[file EXCEPT !.hash = EmptyStr]>>)

RECURSIVE GroupAll(_, _)
\* a grouping loop over a whole index
GroupAll(index, files) ==
  IF files = <<>> THEN index
  ELSE GroupAll(PushToGroup(index, Head(files)), Tail(files))

\* hash_index after both loops
GroupByHash(primary, other) ==
  GroupAll(GroupAll(<<>>, primary), IF other.some THEN other.data ELSE <<>>)

\* the filter as it would be if groups of one file passed
IsReportedGroupNonEmpty(group) == Len(group) > 0

\* .filter(|hash| hash.len() > 1)
IsReportedGroup(group) == Len(group) > 1

\* entry.first().map(|file| file.file_size).unwrap_or_default()
RepresentativeSize(group) == IF group = <<>> THEN 0 ELSE group[1].file_size

\* the sort as it would be without Reverse: ascending by representative size
SortedGroupListsAscending(index) ==
  {[i \in DOMAIN keys |-> index[keys[i]]] :
     keys \in {k \in Orders({h \in DOMAIN index : IsReportedGroup(index[h])}) :
                 \A i \in 1..(Len(k) - 1) :
                   RepresentativeSize(index[k[i]])
                     <= RepresentativeSize(index[k[i + 1]])}}

\* the orders sort_unstable_by_key(Reverse(size)) can leave the groups of a
\* hash map in: every order that is descending by representative size
SortedGroupLists(index) ==
  {[i \in DOMAIN keys |-> index[keys[i]]] :
     keys \in {k \in Orders({h \in DOMAIN index : IsReportedGroup(index[h])}) :
                 \A i \in 1..(Len(k) - 1) :
                   RepresentativeSize(index[k[i]])
                     >= RepresentativeSize(index[k[i + 1]])}}

\* fn format_file_size
FormatFileSize(size) ==
  IF size < 1000 THEN [size |-> size, unit |-> "B"]
  ELSE IF size < 1000 * 1000
    THEN [size |-> size \div 1000, unit |-> "KB"]
  ELSE IF size < 1000 * 1000 * 1000
    THEN [size |-> size \div (1000 * 1000), unit |-> "MB"]
  ELSE IF size < 1000 * 1000 * 1000 * 1000
    THEN [size |-> size \div (1000 * 1000 * 1000), unit |-> "GB"]
  ELSE [size |-> size \div (1000 * 1000 * 1000 * 1000), unit |-> "TB"]

\* the lines printed for a group: its count, its formatted size, its names
PrintedGroup(group) ==
  [count |-> Len(group),
   size |-> FormatFileSize(RepresentativeSize(group)),
   names |-> [i \in DOMAIN group |-> group[i].file_name]]

\* the digests the entries of a report carry
ReportDigests == {DigestOfStream(<<1>>), DigestOfStream(<<2>>)}

\* the indexes with n entries whose names start with the character k
ReportIndexes(k, n) ==
  {[i \in 1..n |-> FileEntry(<<k, i>>, c[i][1], c[i][2], 1)] :
     c \in [1..n -> (0..MaxSize) \X ReportDigests]}

\* duplicate_report is called with an index, an optional second index and an
\* optional minimum size
InitReport ==
  /\ ScanIdle
  /\ StoreIdle
  /\ ParseIdle
  /\ rpt_pc = "group"
  /\ rpt_data_file \in UNION {ReportIndexes(1, n) : n \in 0..MaxRecords}
  /\ rpt_other \in
       {[some |-> FALSE, data |-> <<>>]} \cup
       {[some |-> TRUE, data |-> d] :
          d \in UNION {ReportIndexes(2, n) :
                         n \in 0..(MaxRecords - Len(rpt_data_file))}}
  /\ rpt_minimum \in
       {NoMinimum} \cup {ByteSize("Byte", v) : v \in 0..(MaxSize + 1)}
  /\ hash_index = <<>>
  /\ hash_list = <<>>
  /\ rpt_out = <<>>

\* duplicate_report: both grouping loops
ReportGroup ==
  /\ rpt_pc = "group"
  /\ hash_index' = GroupByHash(rpt_data_file, rpt_other)
  /\ rpt_pc' = "collect"
  /\ UNCHANGED <<scan_vars, side_vars, rpt_data_file, rpt_other, rpt_minimum,
                 hash_list, rpt_out>>

\* duplicate_report: the groups of two or more, sorted by descending size
ReportCollect ==
  /\ rpt_pc = "collect"
  /\ hash_list' \in SortedGroupLists(hash_index)
  /\ hash_index' = <<>>
  /\ rpt_pc' = "emit"
  /\ UNCHANGED <<scan_vars, side_vars, rpt_data_file, rpt_other, rpt_minimum,
                 rpt_out>>

\* duplicate_report, one iteration of the printing loop
ReportEmit ==
  /\ rpt_pc = "emit"
  /\ hash_list # <<>>
  /\ hash_list' = Tail(hash_list)
  /\ \/ /\ IsBelowMinimum(RepresentativeSize(Head(hash_list)), rpt_minimum)
        /\ UNCHANGED rpt_out
     \/ /\ ~IsBelowMinimum(RepresentativeSize(Head(hash_list)), rpt_minimum)
        /\ rpt_out' = Append(rpt_out, PrintedGroup(Head(hash_list)))
  /\ UNCHANGED <<scan_vars, side_vars, rpt_pc, rpt_data_file, rpt_other,
                 rpt_minimum, hash_index>>

\* duplicate_report returns
ReportDone ==
  /\ rpt_pc = "emit"
  /\ hash_list = <<>>
  /\ rpt_pc' = "done"
  /\ UNCHANGED <<scan_vars, side_vars, rpt_data_file, rpt_other, rpt_minimum,
                 hash_index, hash_list, rpt_out>>

NextReport ==
  \/ ReportGroup
  \/ ReportCollect
  \/ ReportEmit
  \/ ReportDone

SpecReport == InitReport /\ [][NextReport]_vars

----------------------------------------------------------------------------
(* The index store: load_current_hash_data and save_hash_data *)

\* the path handed to load and save, and the snapshot path inside it
SourcePath == <<1, 6>>
InnerPath == PathJoin(SourcePath, HASH_DATA_FILENAME)

\* what a path holds: nothing, a directory, or a file with its records;
\* decodable says whether serde_json can read the file as Vec<FileEntry>
NoNode == [kind |-> "none", data |-> <<>>, decodable |-> FALSE]
DirNode == [kind |-> "dir", data |-> <<>>, decodable |-> FALSE]
FileNode(data) == [kind |-> "file", data |-> data, decodable |-> TRUE]
BadFileNode == [kind |-> "file", data |-> <<>>, decodable |-> FALSE]

\* Path::exists, Path::is_file, Path::is_dir
PathExists(disk, path) == disk[path].kind # "none"
PathIsFile(disk, path) == disk[path].kind = "file"
PathIsDir(disk, path) == disk[path].kind = "dir"

\* AppError::new(message)
AppErrorNew(message) == [kind |-> "Abort", info |-> message]

\* fn get_hash_data_file_path
GetHashDataFilePath(disk, source_path, create) ==
  IF PathIsFile(disk, source_path)
  THEN [res |-> Ok, path |-> source_path]
  ELSE IF PathIsDir(disk, source_path)
  THEN IF PathIsFile(disk, PathJoin(source_path, HASH_DATA_FILENAME)) \/ create
       THEN [res |-> Ok, path |-> PathJoin(source_path, HASH_DATA_FILENAME)]
       ELSE [res |-> AppErrorNew("Comparison path does not contain hash data file"),
             path |-> <<>>]
  ELSE [res |-> AppErrorNew("Comparison path not found"), path |-> <<>>]

\* Result<Vec<FileEntry>, AppError>
LoadOk(hash_data) == [res |-> Ok, data |-> hash_data]
LoadErr(err) == [res |-> err, data |-> <<>>]
NotLoaded == [res |-> NoResult, data |-> <<>>]

\* fn load_current_hash_data; open_fails: File::open returns an error
LoadCurrentHashData(disk, source_path, create, open_fails) ==
  LET resolved == GetHashDataFilePath(disk, source_path, create)
      hash_data_file_path == resolved.path
  IN IF resolved.res # Ok THEN LoadErr(resolved.res)
     ELSE IF ~PathExists(disk, hash_data_file_path)
     THEN IF create THEN LoadOk(<<>>)
          ELSE LoadErr(AppErrorNew("Comparison hash data file not found"))
     ELSE IF ~PathIsFile(disk, hash_data_file_path)
     THEN LoadErr(AppErrorNew("Expected to be a file"))
     ELSE IF open_fails THEN LoadErr(Caught("hash_data.rs:40"))
     ELSE IF ~disk[hash_data_file_path].decodable
     THEN LoadErr(Caught("hash_data.rs:42"))
     ELSE LoadOk(RestoreOrder(disk[hash_data_file_path].data))

\* OpenOptions write, truncate, create on starting_dir.join(HASH_DATA_FILENAME):
\* the parent must be a directory and the path must not be one
CanOpenForWrite(disk, starting_dir) ==
  /\ PathIsDir(disk, starting_dir)
  /\ ~PathIsDir(disk, PathJoin(starting_dir, HASH_DATA_FILENAME))

\* fn save_hash_data: the disk it leaves and what it returns; open_fails and
\* write_fails: the open or the write returns an error for another reason
SaveHashDataTo(disk, starting_dir, index, open_fails, write_fails) ==
  LET hash_data_filename == PathJoin(starting_dir, HASH_DATA_FILENAME)
  IN IF ~CanOpenForWrite(disk, starting_dir) \/ open_fails
     THEN [disk |-> disk, res |-> Caught("hash_data.rs:80")]
     ELSE IF write_fails
     THEN [disk |-> [disk EXCEPT ![hash_data_filename] = BadFileNode],
           res |-> Caught("hash_data.rs:84")]
     ELSE [disk |-> [disk EXCEPT ![hash_data_filename] = FileNode(index)],
           res |-> Ok]

\* the records a snapshot on disk can hold
StoreRecords ==
  {FileEntry(n, BufferLen, DigestOfStream(<<1>>), m) :
     n \in {FileA, FileX, FileC}, m \in Mtimes}

\* the snapshots a file can hold, in any order and with any repetition
Snapshots == UNION {[1..n -> StoreRecords] : n \in 0..MaxSnapshot}

\* the files a path can hold
FileNodes == {FileNode(d) : d \in Snapshots} \cup {BadFileNode}

\* the states of the two paths: the snapshot path exists only in a directory
Disks ==
  {(SourcePath :> NoNode) @@ (InnerPath :> NoNode)}
    \cup {(SourcePath :> f) @@ (InnerPath :> NoNode) : f \in FileNodes}
    \cup {(SourcePath :> DirNode) @@ (InnerPath :> x) :
            x \in {NoNode, DirNode} \cup FileNodes}

\* the indexes a pass can hand to save: ascending, one entry for a name
Indexes ==
  {v \in UNION {[1..n -> {e \in StoreRecords : e.modified = 1}] : n \in 0..3} :
     \A i \in 1..(Len(v) - 1) : StrLess(v[i].file_name, v[i + 1].file_name)}

\* the store is called on a path of a disk
InitStore ==
  /\ ScanIdle
  /\ ReportIdle
  /\ ParseIdle
  /\ st_pc = "ready"
  /\ st_disk \in Disks
  /\ st_create \in BOOLEAN
  /\ st_index \in Indexes
  /\ st_loaded = NotLoaded
  /\ st_saved = NoResult
  /\ st_fault = FALSE

\* load_current_hash_data(SourcePath, create) is called and returns
StoreLoad ==
  /\ st_pc \in {"ready", "saved"}
  /\ \E open_fails \in BOOLEAN :
       /\ st_loaded' = LoadCurrentHashData(st_disk, SourcePath, st_create,
                                           open_fails)
       /\ st_fault' = (st_fault \/ st_loaded'.res = Caught("hash_data.rs:40"))
  /\ st_pc' = IF st_pc = "ready" THEN "loaded" ELSE "reloaded"
  /\ UNCHANGED <<scan_vars, report_vars, parse_vars, st_disk, st_create,
                 st_index, st_saved>>

\* save_hash_data(SourcePath, index) is called and returns
StoreSave ==
  /\ st_pc = "ready"
  /\ \E open_fails, write_fails \in BOOLEAN :
       LET r == SaveHashDataTo(st_disk, SourcePath, st_index, open_fails,
                               write_fails)
       IN /\ st_disk' = r.disk
          /\ st_saved' = r.res
          /\ st_fault' = (open_fails \/ write_fails)
  /\ st_pc' = "saved"
  /\ UNCHANGED <<scan_vars, report_vars, parse_vars, st_create, st_index,
                 st_loaded>>

NextStore ==
  \/ StoreLoad
  \/ StoreSave

SpecStore == InitStore /\ [][NextStore]_vars

----------------------------------------------------------------------------
(* Unsigned integers wider than the integers of the model: a number is the
   sequence of its base-10000 limbs, least significant first, without a
   most significant zero limb; zero is the empty sequence *)

Limb == 10000

RECURSIVE Trim(_)
\* the limbs without most significant zero limbs
Trim(a) ==
  IF a # <<>> /\ a[Len(a)] = 0 THEN Trim(SubSeq(a, 1, Len(a) - 1)) ELSE a

RECURSIVE AddLimbs(_, _, _)
\* a + b + carry
AddLimbs(a, b, carry) ==
  IF a = <<>> /\ b = <<>> THEN (IF carry = 0 THEN <<>> ELSE <<carry>>)
  ELSE LET x == IF a = <<>> THEN 0 ELSE Head(a)
           y == IF b = <<>> THEN 0 ELSE Head(b)
           t == x + y + carry
       IN <<t % Limb>> \o AddLimbs(IF a = <<>> THEN a ELSE Tail(a),
                                   IF b = <<>> THEN b ELSE Tail(b),
                                   t \div Limb)

RECURSIVE SubLimbs(_, _, _)
\* a - b - borrow, for a >= b + borrow
SubLimbs(a, b, borrow) ==
  IF a = <<>> THEN <<>>
  ELSE LET y == IF b = <<>> THEN 0 ELSE Head(b)
           t == Head(a) - y - borrow
       IN <<(t + Limb) % Limb>> \o SubLimbs(Tail(a),
                                            IF b = <<>> THEN b ELSE Tail(b),
                                            IF t < 0 THEN 1 ELSE 0)

RECURSIVE MulLimb(_, _, _)
\* a * d + carry for one limb d
MulLimb(a, d, carry) ==
  IF a = <<>> THEN (IF carry = 0 THEN <<>> ELSE <<carry>>)
  ELSE LET t == Head(a) * d + carry
       IN <<t % Limb>> \o MulLimb(Tail(a), d, t \div Limb)

RECURSIVE MulLimbs(_, _)
\* a * b
MulLimbs(a, b) ==
  IF b = <<>> THEN <<>>
  ELSE AddLimbs(MulLimb(a, Head(b), 0), <<0>> \o MulLimbs(a, Tail(b)), 0)

BigAdd(a, b) == Trim(AddLimbs(a, b, 0))
BigSub(a, b) == Trim(SubLimbs(a, b, 0))
BigMul(a, b) == Trim(MulLimbs(a, b))

\* a small number of the model as a wide one
Big(n) == Trim(<<n % Limb, n \div Limb>>)

RECURSIVE LimbsLess(_, _)
\* a < b for limb sequences of one length
LimbsLess(a, b) ==
  /\ a # <<>>
  /\ \/ a[Len(a)] < b[Len(b)]
     \/ /\ a[Len(a)] = b[Len(b)]
        /\ LimbsLess(SubSeq(a, 1, Len(a) - 1), SubSeq(b, 1, Len(b) - 1))

\* a < b
BigLess(a, b) ==
  \/ Len(a) < Len(b)
  \/ Len(a) = Len(b) /\ LimbsLess(a, b)

\* u64::MAX = 18446744073709551615 = 2^64 - 1, and 2^64
U64Max == <<1615, 955, 737, 6744, 1844>>
TwoTo64 == BigAdd(U64Max, Big(1))

\* a mod m for a < Limb * m, by bisection on the quotient
RECURSIVE QuotientBetween(_, _, _, _)
QuotientBetween(a, m, low, high) ==
  IF low = high THEN low
  ELSE LET mid == (low + high + 1) \div 2
       IN IF BigLess(a, BigMul(m, Big(mid)))
          THEN QuotientBetween(a, m, low, mid - 1)
          ELSE QuotientBetween(a, m, mid, high)

ReduceBelow(a, m) ==
  BigSub(a, BigMul(m, Big(QuotientBetween(a, m, 0, Limb - 1))))

RECURSIVE BigMod(_, _)
\* a mod m, limb by limb from the most significant one
BigMod(a, m) ==
  IF a = <<>> THEN <<>>
  ELSE ReduceBelow(Trim(<<Head(a)>> \o BigMod(Tail(a), m)), m)

\* what a wrapping multiplication leaves of a product: its value modulo 2^64
WrapU64(a) == BigMod(a, TwoTo64)

----------------------------------------------------------------------------
(* The size literal parser: ByteSizeValueParser::parse_ref, ByteSize::into *)

\* the characters of a literal; "?" stands for bytes that are not UTF-8
DigitChars == {"0", "1"}
UnitChars == {"B", "K", "i", "M", "G", "T"}
OtherChars == {"X", "k", "?"}
Chars == DigitChars \cup UnitChars \cup OtherChars

\* literals at the edge of 64 bits: u64::MAX, u64::MAX with a decimal
\* suffix, and 2^24 - 1 and 2^24 with the suffix of 2^40
LongLiterals ==
  {<<"1", "8", "4", "4", "6", "7", "4", "4", "0", "7", "3", "7", "0", "9",
     "5", "5", "1", "6", "1", "5">>,
   <<"1", "8", "4", "4", "6", "7", "4", "4", "0", "7", "3", "7", "0", "9",
     "5", "5", "1", "6", "1", "5", "K">>,
   <<"1", "6", "7", "7", "7", "2", "1", "5", "T", "i", "B">>,
   <<"1", "6", "7", "7", "7", "2", "1", "6", "T", "i", "B">>}

\* the literals handed to the parser
Literals == UNION {[1..n -> Chars] : n \in 0..MaxLiteral} \cup LongLiterals

\* u8::is_ascii_digit
IsAsciiDigit(c) == c \in {"0", "1", "2", "3", "4", "5", "6", "7", "8", "9"}

\* value.bytes().all(|c| c.is_ascii_digit()): true of the empty string
AllAsciiDigit(value) == \A i \in DOMAIN value : IsAsciiDigit(value[i])

\* the value of a digit character
DigitOf(c) ==
  CASE c = "0" -> 0 [] c = "1" -> 1 [] c = "2" -> 2 [] c = "3" -> 3
    [] c = "4" -> 4 [] c = "5" -> 5 [] c = "6" -> 6 [] c = "7" -> 7
    [] c = "8" -> 8 [] c = "9" -> 9

\* the decimal digit of an all-digit string at a place, 0 for the one of
\* the units, and 0 beyond the string
DigitAt(value, place) ==
  IF place < Len(value) THEN DigitOf(value[Len(value) - place]) ELSE 0

\* the number an all-digit string writes in decimal: four digits to a limb
NumberOf(value) ==
  Trim([k \in 1..((Len(value) + 3) \div 4) |->
          DigitAt(value, 4 * k - 4) + 10 * DigitAt(value, 4 * k - 3)
            + 100 * DigitAt(value, 4 * k - 2)
            + 1000 * DigitAt(value, 4 * k - 1)])

\* str::parse::<u64> of an all-digit string: an error for the empty string
\* and for a number above u64::MAX
ParseU64(value) ==
  IF value = <<>> \/ BigLess(U64Max, NumberOf(value))
  THEN [ok |-> FALSE, value |-> <<>>]
  ELSE [ok |-> TRUE, value |-> NumberOf(value)]

\* the array suffixes, in its order
Suffixes ==
  <<<<"B">>, <<"K", "B">>, <<"K">>, <<"K", "i", "B">>, <<"M", "B">>, <<"M">>,
    <<"M", "i", "B">>, <<"G", "B">>, <<"G">>, <<"G", "i", "B">>, <<"T", "B">>,
    <<"T">>, <<"T", "i", "B">>>>

\* str::strip_suffix: the rest of the string when it ends with the suffix
StripSuffix(value, suffix) ==
  IF /\ Len(suffix) <= Len(value)
     /\ SubSeq(value, Len(value) - Len(suffix) + 1, Len(value)) = suffix
  THEN [some |-> TRUE, value |-> SubSeq(value, 1, Len(value) - Len(suffix))]
  ELSE [some |-> FALSE, value |-> <<>>]

\* the closure of filter_map: the suffix is stripped and the rest is all-digit
SuffixMatches(value, suffix) ==
  /\ StripSuffix(value, suffix).some
  /\ AllAsciiDigit(StripSuffix(value, suffix).value)

\* the match on the suffix that picks the variant
UnitOfSuffix(suffix) ==
  CASE suffix = <<"B">> -> "Byte"
    [] suffix \in {<<"K", "B">>, <<"K">>} -> "KByte"
    [] suffix = <<"K", "i", "B">> -> "KiByte"
    [] suffix \in {<<"M", "B">>, <<"M">>} -> "MByte"
    [] suffix = <<"M", "i", "B">> -> "MiByte"
    [] suffix \in {<<"G", "B">>, <<"G">>} -> "GByte"
    [] suffix = <<"G", "i", "B">> -> "GiByte"
    [] suffix \in {<<"T", "B">>, <<"T">>} -> "TByte"
    [] suffix = <<"T", "i", "B">> -> "TiByte"
    [] OTHER -> "none"

\* Result<ByteSize, clap::error::Error>
ParsedOk(unit, value) == [kind |-> "Ok", unit |-> unit, value |-> value]
ParseError(message) == [kind |-> message, unit |-> "none", value |-> <<>>]
NotParsed == [kind |-> "none", unit |-> "none", value |-> <<>>]

\* fn parse_ref
ParseRef(value) ==
  IF \E i \in DOMAIN value : value[i] = "?" THEN ParseError("Invalid UTF8")
  ELSE IF AllAsciiDigit(value) /\ ParseU64(value).ok
  THEN ParsedOk("Byte", ParseU64(value).value)
  ELSE LET matching == {i \in DOMAIN Suffixes : SuffixMatches(value, Suffixes[i])}
       IN IF matching = {} THEN ParseError("Unknown")
          ELSE LET first == CHOOSE i \in matching : \A j \in matching : i <= j
                   suffix == Suffixes[first]
                   parsed == ParseU64(StripSuffix(value, suffix).value)
               IN IF parsed.ok /\ UnitOfSuffix(suffix) # "none"
                  THEN ParsedOk(UnitOfSuffix(suffix), parsed.value)
                  ELSE ParseError("Unknown")

\* the factors of impl Into<u64> for ByteSize, as written in the source
MultiplierU64(unit) ==
  CASE unit = "Byte" -> <<1>>
    [] unit = "KByte" -> <<1000>>
    [] unit = "KiByte" -> <<1024>>
    [] unit = "MByte" -> <<0, 100>>                    \* 1_000_000
    [] unit = "MiByte" -> <<8576, 104>>                \* 1_048_576
    [] unit = "GByte" -> <<0, 0, 10>>                  \* 1_000_000_000
    [] unit = "GiByte" -> <<1824, 7374, 10>>           \* 1_073_741_824
    [] unit = "TByte" -> <<0, 0, 0, 1>>                \* 1_000_000_000_000
    [] unit = "TiByte" -> <<7776, 1162, 995, 1>>       \* 1_099_511_627_776

\* impl Into<u64> for ByteSize on 64-bit values: the product when it fits;
\* when it does not, the multiplication panics in a build with overflow
\* checks and wraps in a build without
ByteSizeIntoU64(unit, value) ==
  LET product == BigMul(value, MultiplierU64(unit))
  IN IF BigLess(U64Max, product)
     THEN {[kind |-> "Panic", value |-> <<>>],
           [kind |-> "Value", value |-> WrapU64(product)]}
     ELSE {[kind |-> "Value", value |-> product]}

NotResolved == [kind |-> "none", value |-> <<>>]

\* the parser is handed a literal
InitParse ==
  /\ ScanIdle
  /\ ReportIdle
  /\ StoreIdle
  /\ ps_pc = "parse"
  /\ ps_literal \in Literals
  /\ ps_result = NotParsed
  /\ ps_bytes = NotResolved

\* parse_ref returns
ParseLiteral ==
  /\ ps_pc = "parse"
  /\ ps_result' = ParseRef(ps_literal)
  /\ ps_pc' = IF ps_result'.kind = "Ok" THEN "resolve" ELSE "rejected"
  /\ UNCHANGED <<scan_vars, report_vars, store_vars, ps_literal, ps_bytes>>

\* the ByteSize parsed is turned into a byte count
ResolveBytes ==
  /\ ps_pc = "resolve"
  /\ ps_bytes' \in ByteSizeIntoU64(ps_result.unit, ps_result.value)
  /\ ps_pc' = "resolved"
  /\ UNCHANGED <<scan_vars, report_vars, store_vars, ps_literal, ps_result>>

NextParse ==
  \/ ParseLiteral
  \/ ResolveBytes

SpecParse == InitParse /\ [][NextParse]_vars

----------------------------------------------------------------------------
(* Notions the properties are stated with *)

\* strictly ascending by file_name, hence without a duplicate name
IsStrictlyAscending(v) ==
  \A i \in 1..(Len(v) - 1) : StrLess(v[i].file_name, v[i + 1].file_name)

\* the entries of an index, as a set
EntriesOf(v) == {v[i] : i \in DOMAIN v}

\* the positions of the entries of v that carry the name
PositionsOf(v, name) == {i \in DOMAIN v : v[i].file_name = name}

\* the file the loop of process_folder is about to process
AtFile == pc = "files" /\ file_index <= Len(file_list)
ThisFile == file_list[file_index]

\* the index holds an entry for the name whose size and modification time
\* equal the metadata of the file on disk
StoredMatchesDisk(v, name) ==
  \E i \in DOMAIN v :
    /\ v[i].file_name = name
    /\ v[i].file_size = MetadataSize(Tree[name])
    /\ v[i].modified = MetadataModified(Tree[name])

\* a step of the file loop, as opposed to a key press during it
FileStep == AtFile /\ (pc' # pc \/ file_index' # file_index)

----------------------------------------------------------------------------
(* Properties of the scan pass *)

\* C1: the index is strictly ascending by path, without duplicate paths,
\* after the prune and after every insert or update of the walk, also in what
\* is returned when the pass is cut short.
C1_IndexStaysSorted ==
  /\ IsStrictlyAscending(data_file)
  /\ IsStrictlyAscending(result)
  /\ IsStrictlyAscending(ret.data)
  /\ IsStrictlyAscending(snapshot.data)

\* a file unknown to the loaded index was inserted between two entries
C1_Witness ==
  /\ pc = "files"
  /\ Len(data_file) = 3
  /\ Len(snapshot.data) = 2
  /\ committed = {data_file[2]}
  /\ PositionsOf(snapshot.data, data_file[2].file_name) = {}

\* C2: a file whose entry is found with the size and modification time read
\* from disk is not hashed and its entry is left as it is, whatever the
\* file's content.
C2_IncrementalSkip ==
  [][(AtFile /\ StoredMatchesDisk(data_file, ThisFile))
       => (pc' # "hash" /\ hashed' = hashed /\ data_file' = data_file)]_vars

\* a file was skipped although its content no longer has the stored digest
C2_Witness ==
  /\ pc = "files"
  /\ file_index > 1
  /\ file_index - 1 <= Len(file_list)
  /\ file_list[file_index - 1] \notin hashed \cup diag
  /\ StoredMatchesDisk(data_file, file_list[file_index - 1])
  /\ \E i \in PositionsOf(data_file, file_list[file_index - 1]) :
       data_file[i].hash # DigestOfStream(Tree[data_file[i].file_name].content)

\* C3: a file that is not in the index, or whose entry differs from the disk
\* in size or modification time, is hashed (unless it cannot be opened or the
\* pass fails), and when hashing succeeds its entry holds the digest of the
\* file's content.
C3_ChangeDetection ==
  /\ [][(FileStep /\ ~StoredMatchesDisk(data_file, ThisFile)
           /\ diag' = diag /\ pc' # "save")
          => (pc' = "hash" /\ ThisFile \in hashed'
                /\ cur'.file_name = ThisFile)]_vars
  /\ [][(pc = "hash" /\ pc' = "files")
          => \E i \in DOMAIN data_file' :
               /\ data_file'[i].file_name = cur.file_name
               /\ data_file'[i].hash =
                    DigestOfStream(Tree[cur.file_name].content)]_vars

\* an entry of the loaded index was given a different, fresh digest
C3_Witness ==
  /\ pc = "files"
  /\ \E e \in committed :
       /\ e \in EntriesOf(data_file)
       /\ e.hash = DigestOfStream(Tree[e.file_name].content)
       /\ \E i \in PositionsOf(snapshot.data, e.file_name) :
            snapshot.data[i].hash # e.hash

\* C4: when a file that is already in the index is hashed again, its entry
\* afterwards carries the new digest and the size and modification time
\* read from disk.
C4_UpdateRefreshesAllFields ==
  [][(pc = "hash" /\ pc' = "files" /\ cur.entry_position.found)
       => \E i \in DOMAIN data_file' :
            data_file'[i] =
              FileEntry(cur.file_name, MetadataSize(Tree[cur.file_name]),
                        DigestOfStream(Tree[cur.file_name].content),
                        MetadataModified(Tree[cur.file_name]))]_vars

\* C5: after a pass that was not cancelled no entry names a missing file;
\* the prune keeps exactly the entries of existing files, in their order;
\* dropping an entry raises no error.
C5_DeletionPruning ==
  /\ [](pc = "exit" /\ ret.some /\ scan_result.kind # "Abort"
          => \A i \in DOMAIN data_file : IsFile(Tree, data_file[i].file_name))
  /\ [][(pc = "purge" /\ pc' \in {"walk", "save"})
          => data_file' =
               SelectSeq(data_file, LAMBDA e : IsFile(Tree, e.file_name))]_vars
  /\ [][(pc = "purge" /\ purge_i' = purge_i + 1
           /\ ~IsFile(Tree, data_file[purge_i].file_name))
          => (result' = result /\ pc' = "purge"
                /\ scan_result' = NoResult)]_vars

\* the prune dropped an entry and kept another
C5_Witness ==
  /\ pc = "walk"
  /\ data_file # <<>>
  /\ Len(data_file) < Len(snapshot.data)

\* C6: when the abort is observed while a file is being hashed, the index
\* returned is the index in memory with every entry stored earlier in the
\* pass, the file being hashed has no new or changed entry, nothing is
\* processed afterwards, and the outcome is Abort.
C6_AbortWhileHashing ==
  /\ [](pc \in {"save", "exit"} /\ scan_result.kind = "Abort" /\ cur.active
          => /\ ret.some
             /\ ret.data = data_file
             /\ ret.err = Abort
             /\ committed \subseteq EntriesOf(ret.data)
             /\ \A e \in committed : e.file_name # cur.file_name
             /\ IF cur.entry_position.found
                THEN PositionsOf(data_file, cur.file_name) # {}
                ELSE PositionsOf(data_file, cur.file_name) = {}
             /\ pc = "save"
                  => \A i \in PositionsOf(data_file, cur.file_name) :
                       data_file[i] \in EntriesOf(snapshot.data))
  /\ [][(pc \in {"save", "exit"} /\ scan_result.kind = "Abort"
           /\ pc' # "start")
          => (data_file' = data_file /\ ret' = ret /\ hashed' = hashed
                /\ committed' = committed /\ diag' = diag
                /\ pc' = "exit")]_vars

\* a pass was aborted in the hashing of a file after it had stored another
C6_Witness ==
  /\ pc = "exit"
  /\ scan_result = Abort
  /\ cur.active
  /\ committed # {}
  /\ saved

\* C7: when the abort is observed during the prune, no walk begins and the
\* entries kept so far are returned.
C7_AbortInPruneReturnsPartial ==
  (pc = "exit" /\ ~skip /\ ~saved /\ scan_result.kind = "Abort")
    => (hashed = {} /\ ret.some /\ ret.data = result)

\* C8: whenever a pass is run, a save is attempted before the run ends.
C8_SaveOnEveryExit ==
  (pc = "exit" /\ ~skip) => saved

\* C9: when a pass has ended normally without a diagnostic, every regular
\* file under the starting directory, the snapshot of the run before
\* included, has exactly one entry in the index the pass returns.
C9_IndexComplete ==
  (pc = "save" /\ scan_result = Ok /\ diag = {})
    => \A f \in DOMAIN Tree :
         Tree[f].exists => Cardinality(PositionsOf(data_file, f)) = 1

\* a pass over the whole tree, subdirectory included, ended normally
C9_Witness ==
  /\ pc = "save"
  /\ scan_result = Ok
  /\ diag = {}
  /\ \A f \in DOMAIN Tree : Tree[f].exists
  /\ Len(data_file) = 4
  /\ hashed # {}

\* C18: a failure to read the size or the modification time of a file is
\* recoverable: the file is skipped, its entry is left as it was, the files
\* and directories that remain are processed, and the pass does not end
\* with an error because of it.
C18_MetadataFailureRecoverable == scan_result \notin MetadataErrors

\* C19: in the file loop the key is polled for every regular file before
\* its metadata is compared with the index, so when the abort key was
\* pressed before a file's turn the pass stops without processing that
\* file, also when the file is unchanged and would be skipped.
C19_PollBeforeEveryFile ==
  [][(FileStep /\ abort_pending)
       => (pc' = "save" /\ file_index' = file_index /\ hashed' = hashed)]_vars

\* a turn of the loop of hash_file, as opposed to a key press during it
HashStep == pc = "hash" /\ (pc' # pc \/ reader_pos' # reader_pos)

\* C20: hash_file polls the key before every read, the first one and the
\* one that returns zero bytes included: once the abort key is pending no
\* further buffer is fed to the hasher and no digest is stored, the turn
\* that follows ends the operation with Abort (with the error of the poll
\* when the poll itself fails), and a digest that is stored is the digest
\* of the whole content, never of a prefix.
C20_HashFileCancellation ==
  /\ [][(HashStep /\ abort_pending)
          => /\ pc' = "save"
             /\ scan_result' \in {Abort, Caught("utils.rs:9")}
             /\ data_file' = data_file
             /\ committed' = committed]_vars
  /\ [][(HashStep /\ data_file' # data_file)
          => /\ ~abort_pending
             /\ \E i \in DOMAIN data_file' :
                  /\ data_file'[i].file_name = cur.file_name
                  /\ data_file'[i].hash
                       = DigestOfStream(Tree[cur.file_name].content)]_vars

\* the abort key is pending in a file of which a buffer has been fed, the
\* read that returns zero bytes still to come
C20_Witness ==
  /\ pc = "hash"
  /\ abort_pending
  /\ reader_pos = 1
  /\ reader_pos = Len(Tree[cur.file_name].content)

----------------------------------------------------------------------------
(* Properties of the duplicate report *)

\* the entries handed to the report, the second index after the first
ReportInput ==
  rpt_data_file \o (IF rpt_other.some THEN rpt_other.data ELSE <<>>)

\* the positions of the report's input that carry the digest
InputWith(h) == {i \in DOMAIN ReportInput : ReportInput[i].hash = h}

\* the digests two or more entries of the input share
SharedDigests ==
  {h \in {ReportInput[i].hash : i \in DOMAIN ReportInput} :
     Cardinality(InputWith(h)) >= 2}

\* the names of the entries that carry the digest, in input order
NamesWith(h) ==
  LET members == SelectSeq(ReportInput, LAMBDA e : e.hash = h)
  IN [i \in DOMAIN members |-> members[i].file_name]

\* the size of the first entry that carries the digest
FirstSizeWith(h) ==
  ReportInput[CHOOSE i \in InputWith(h) : \A j \in InputWith(h) : i <= j].file_size

\* the minimum size suppresses no group of two or more
NothingExcluded ==
  \A h \in SharedDigests : FirstSizeWith(h) >= MinimumBytes(rpt_minimum)

\* C10: when the threshold excludes nothing, the report prints one group for
\* each digest that two or more entries of the two indexes share, with all
\* the entries of that digest as its members, and no other group.
C10_DuplicateGrouping ==
  (rpt_pc = "done" /\ NothingExcluded)
    => /\ Len(rpt_out) = Cardinality(SharedDigests)
       /\ \A h \in SharedDigests :
            \E i \in DOMAIN rpt_out :
              /\ rpt_out[i].names = NamesWith(h)
              /\ rpt_out[i].count = Cardinality(InputWith(h))

\* a report over two indexes printed one group with members of both, and
\* left out a digest only one entry carries
C10_Witness ==
  /\ rpt_pc = "done"
  /\ NothingExcluded
  /\ rpt_other.some
  /\ Len(rpt_out) = 1
  /\ \E h \in SharedDigests :
       /\ \E i \in InputWith(h) : i <= Len(rpt_data_file)
       /\ \E i \in InputWith(h) : i > Len(rpt_data_file)
  /\ \E i \in DOMAIN ReportInput :
       Cardinality(InputWith(ReportInput[i].hash)) = 1

\* the digests the entries of the input carry
InputDigests == {ReportInput[i].hash : i \in DOMAIN ReportInput}

\* the report printed a group whose members are the entries of the digest
IsPrinted(h) == \E i \in DOMAIN rpt_out : rpt_out[i].names = NamesWith(h)

\* the digest of the group printed at position i
PrintedDigest(i) ==
  CHOOSE h \in InputDigests : NamesWith(h) = rpt_out[i].names

\* C11: with an explicit minimum size T a group is reported if and only if
\* it has two or more members and the size of its first member is not
\* strictly below T; a group whose first member's size equals T is reported.
C11_ThresholdFiltering ==
  (rpt_pc = "done" /\ rpt_minimum.some)
    => /\ \A h \in InputDigests :
            IsPrinted(h) <=>
              /\ h \in SharedDigests
              /\ ~(FirstSizeWith(h) < ByteSizeInto(rpt_minimum))
       /\ \A i \in DOMAIN rpt_out :
            \E h \in InputDigests : rpt_out[i].names = NamesWith(h)
       /\ \A i, j \in DOMAIN rpt_out :
            rpt_out[i].names = rpt_out[j].names => i = j

\* a report with minimum T >= 1 printed a group of size exactly T and
\* dropped a group of two members whose size is below T
C11_Witness ==
  /\ rpt_pc = "done"
  /\ rpt_minimum.some
  /\ ByteSizeInto(rpt_minimum) >= 1
  /\ \E h \in SharedDigests :
       FirstSizeWith(h) = ByteSizeInto(rpt_minimum) /\ IsPrinted(h)
  /\ \E h \in SharedDigests :
       FirstSizeWith(h) < ByteSizeInto(rpt_minimum) /\ ~IsPrinted(h)

\* C12: when no minimum size is given the size filter suppresses no group:
\* every digest that two or more entries share is printed, a group of
\* zero-size files included.
C12_DefaultMinimumFiltersNothing ==
  (rpt_pc = "done" /\ ~rpt_minimum.some)
    => \A h \in SharedDigests : IsPrinted(h)

\* C13: the groups are printed in descending order of the size of their
\* first member: an earlier group is never smaller than a later one, and
\* of two groups of distinct sizes the larger one comes first.
C13_ReportOrdering ==
  \A i, j \in DOMAIN rpt_out :
    i < j => FirstSizeWith(PrintedDigest(i)) >= FirstSizeWith(PrintedDigest(j))

\* a report printed two groups of distinct sizes whose larger group entered
\* the input after the smaller one
C13_Witness ==
  /\ rpt_pc = "done"
  /\ Len(rpt_out) = 2
  /\ FirstSizeWith(PrintedDigest(1)) > FirstSizeWith(PrintedDigest(2))
  /\ \A i \in InputWith(PrintedDigest(1)) :
       \E j \in InputWith(PrintedDigest(2)) : j < i

----------------------------------------------------------------------------
(* Properties of the index store *)

\* the snapshot file the path resolves to does not exist: the path itself
\* does not exist, or it is a directory without the snapshot file
SnapshotAbsent ==
  \/ ~PathExists(st_disk, SourcePath)
  \/ PathIsDir(st_disk, SourcePath) /\ ~PathExists(st_disk, InnerPath)

\* how often a record occurs in an index
Occurrences(v, r) == Cardinality({i \in DOMAIN v : v[i] = r})

\* two indexes hold the same records, each as often
SameRecords(v, w) ==
  \A r \in EntriesOf(v) \cup EntriesOf(w) : Occurrences(v, r) = Occurrences(w, r)

\* the snapshot file a load of the path reads
ResolvedNode ==
  IF PathIsFile(st_disk, SourcePath) THEN st_disk[SourcePath]
  ELSE st_disk[InnerPath]

\* C14: when the snapshot file the path resolves to does not exist, whether
\* the path is a directory or does not exist itself, load returns the empty
\* index if create is set and fails with the user-facing (Abort) error if it
\* is not, and never with a wrapped (Caught) error.
C14_LoadOfAbsentSnapshot ==
  (st_pc = "loaded" /\ SnapshotAbsent)
    => IF st_create THEN st_loaded = LoadOk(<<>>)
       ELSE st_loaded.res.kind = "Abort"

\* C15: for every decodable snapshot, in whatever order its records are on
\* disk, the index load returns is strictly ascending by file name, so no
\* name occurs twice, and holds the records of the snapshot.
C15_LoadRestoresOrder ==
  (st_pc = "loaded" /\ st_loaded.res = Ok /\ ~SnapshotAbsent)
    => /\ IsStrictlyAscending(st_loaded.data)
       /\ SameRecords(st_loaded.data, ResolvedNode.data)

\* the path is one load accepts: a snapshot file addressed directly, or a
\* directory whose snapshot path is not itself a directory
HintAccepted ==
  \/ PathIsFile(st_disk, SourcePath) /\ st_disk[SourcePath].decodable
  \/ PathIsDir(st_disk, SourcePath) /\ ~PathIsDir(st_disk, InnerPath)

\* C16: for every index and every path load accepts, a directory or a
\* snapshot file addressed directly, save to the path followed by load of
\* the path reads the file the save wrote and returns the records saved.
C16_SaveLoadRoundTrip ==
  (st_pc = "reloaded" /\ HintAccepted /\ ~st_fault)
    => /\ st_saved = Ok
       /\ st_loaded.res = Ok
       /\ EntriesOf(st_loaded.data) = EntriesOf(st_index)

----------------------------------------------------------------------------
(* Properties of the size literal parser *)

\* the suffixes of the grammar with their multipliers as base and exponent
GrammarSuffixes ==
  {[text |-> <<"B">>, base |-> 1000, exponent |-> 0],
   [text |-> <<"K", "B">>, base |-> 1000, exponent |-> 1],
   [text |-> <<"K">>, base |-> 1000, exponent |-> 1],
   [text |-> <<"K", "i", "B">>, base |-> 1024, exponent |-> 1],
   [text |-> <<"M", "B">>, base |-> 1000, exponent |-> 2],
   [text |-> <<"M">>, base |-> 1000, exponent |-> 2],
   [text |-> <<"M", "i", "B">>, base |-> 1024, exponent |-> 2],
   [text |-> <<"G", "B">>, base |-> 1000, exponent |-> 3],
   [text |-> <<"G">>, base |-> 1000, exponent |-> 3],
   [text |-> <<"G", "i", "B">>, base |-> 1024, exponent |-> 3],
   [text |-> <<"T", "B">>, base |-> 1000, exponent |-> 4],
   [text |-> <<"T">>, base |-> 1000, exponent |-> 4],
   [text |-> <<"T", "i", "B">>, base |-> 1024, exponent |-> 4]}

\* the literal is digits, one or more, followed by the text
IsDigitsThen(literal, text) ==
  /\ Len(literal) > Len(text)
  /\ SubSeq(literal, Len(literal) - Len(text) + 1, Len(literal)) = text
  /\ \A i \in 1..(Len(literal) - Len(text)) :
       literal[i] \in {"0", "1", "2", "3", "4", "5", "6", "7", "8", "9"}

\* the literal is in the grammar
InGrammar(literal) ==
  \/ IsDigitsThen(literal, <<>>)
  \/ \E s \in GrammarSuffixes : IsDigitsThen(literal, s.text)

RECURSIVE Scaled(_, _, _)
\* number * base^exponent
Scaled(number, base, exponent) ==
  IF exponent = 0 THEN number
  ELSE BigMul(Scaled(number, base, exponent - 1), Big(base))

\* the byte count the grammar gives a literal it accepts
GrammarBytes(literal) ==
  IF IsDigitsThen(literal, <<>>) THEN NumberOf(literal)
  ELSE LET s == CHOOSE s \in GrammarSuffixes : IsDigitsThen(literal, s.text)
       IN Scaled(NumberOf(SubSeq(literal, 1, Len(literal) - Len(s.text))),
                 s.base, s.exponent)

\* C17: a literal is accepted if and only if it is one or more digits, or
\* one or more digits followed by exactly one of the suffixes B, KB, K, KiB,
\* MB, M, MiB, GB, G, GiB, TB, T, TiB; an accepted literal resolves to the
\* integer times the multiplier of the suffix, and every other literal is
\* rejected with the error for an invalid size literal.
C17_ByteSizeGrammar ==
  /\ ps_pc \in {"resolve", "resolved", "rejected"}
       => (ps_result.kind = "Ok" <=> InGrammar(ps_literal))
  /\ ps_pc = "rejected" => ps_result.kind \in {"Unknown", "Invalid UTF8"}
  /\ ps_pc = "resolved"
       => ps_bytes = [kind |-> "Value", value |-> GrammarBytes(ps_literal)]

----------------------------------------------------------------------------
(* Properties of the walk *)

\* a path, the directories above it and the starting directory
Ancestors(p) == {SubSeq(p, 1, 2 * k) : k \in 0..(Len(p) \div 2)}

\* no diagnostic was printed for the path or for a directory above it
Unfailed(p, failed) == Ancestors(p) \cap failed = {}

\* the directory on top of the stack
TopDirectory == pending_directories_list[Len(pending_directories_list)]

\* C21: when a file cannot be opened the index is left as it is and the file
\* loop goes on with the next file; when a directory cannot be opened nothing
\* is queued for it, the index is left as it is and the directories pending
\* below it on the stack stay pending (in both cases unless the diagnostic
\* line itself cannot be written); and when the pass then ends normally,
\* every directory that was not reported and lies under no reported one has
\* been visited.
C21_OpenFailuresRecoverable ==
  [][/\ (pc = "files" /\ diag' # diag)
          => /\ data_file' = data_file
             /\ \/ /\ pc' = "files"
                   /\ file_list' = file_list
                   /\ file_index' = file_index + 1
                   /\ pending_directories_list' = pending_directories_list
                \/ /\ pc' = "save"
                   /\ scan_result' = Caught("scan_folders.rs:133")
     /\ (pc = "walk" /\ diag' # diag)
          => /\ data_file' = data_file
             /\ \/ /\ pc' = "walk"
                   /\ pending_directories_list' =
                        SubSeq(pending_directories_list, 1,
                               Len(pending_directories_list) - 1)
                \/ /\ pc' = "save"
                   /\ scan_result' = Caught("scan_folders.rs:86")
     /\ (pc' = "save" /\ scan_result' = Ok)
          => \A d \in Dirs : Unfailed(d, diag') => pops'[d] = 1]_vars

\* a subdirectory could not be opened while another one was pending; the
\* other one was visited, the pass ended normally, and the entry of the file
\* in the unreadable directory is still in the index
C21_Witness ==
  /\ pc = "save"
  /\ scan_result = Ok
  /\ \E d \in diag \cap Dirs :
       /\ pops[d] = 1
       /\ \E e \in Dirs \ {d, RootDir} : pops[e] = 1
       /\ \E i \in DOMAIN data_file : Parent(data_file[i].file_name) = d

\* C22: in the index a pass that ended normally returns, all entries that
\* share a digest have the same stored size.
C22_UniformSizeInGroup ==
  (pc = "save" /\ scan_result = Ok)
    => \A i, j \in DOMAIN data_file :
         data_file[i].hash = data_file[j].hash
           => data_file[i].file_size = data_file[j].file_size

\* the walk is under way
InWalk == pc \in {"walk", "enum", "files", "hash"}

\* C23: a walk that was begun ends; and when it ends normally the stack is
\* empty, no directory was pushed or popped twice, and the starting
\* directory and every directory under it (no diagnostic having been printed
\* for it or for a directory above it) was pushed once and popped once.
C23_WalkTerminates ==
  /\ InWalk ~> pc = "save"
  /\ [](pc = "save" /\ scan_result = Ok
         => /\ pending_directories_list = <<>>
            /\ \A d \in Dirs :
                 /\ pushes[d] <= 1
                 /\ pops[d] = pushes[d]
                 /\ Unfailed(d, diag) => pops[d] = 1)

\* the walk ended normally after it went through the starting directory and
\* both subdirectories, one of them left pending while the other was read
C23_Witness ==
  /\ pc = "save"
  /\ scan_result = Ok
  /\ diag = {}
  /\ \A d \in Dirs : pushes[d] = 1 /\ pops[d] = 1
  /\ hashed # {}

\* C24: when the last pass ended normally with every file and directory
\* read, and was saved, and no file was edited since, the next pass hashes
\* no file, and when it ends normally the index it returns is the one that
\* was saved.
C24_RepeatedScanConverges ==
  (settled /\ (InWalk \/ pc = "save"))
    => /\ hashed = {}
       /\ scan_result = Ok => data_file = snapshot.data

----------------------------------------------------------------------------
(* Properties of the size literals, continued *)

\* C25: a literal that was parsed (its digits fit 64 bits) resolves to
\* exactly the integer times the multiplier of its unit: the resolution
\* neither stops the program nor yields the product reduced modulo 2^64.
C25_ExactByteCount ==
  ps_pc = "resolved"
    => /\ ps_bytes.kind = "Value"
       /\ ps_bytes.value =
            BigMul(ps_result.value, MultiplierU64(ps_result.unit))

====
